---- MODULE Spec2Model ----
(***************************************************************************)
(* A model of xray.py: the scanner (scan_project), its per-file            *)
(* classification and import extraction, the dependency-graph builder and  *)
(* the command-line driver that clones a remote repository into a          *)
(* temporary directory and removes it afterwards.                          *)
(*                                                                         *)
(* Python strings are modelled as sequences of one-character strings, so   *)
(* that suffix tests, substring tests, splitting and regular-expression    *)
(* matching are computed character by character as the code computes them. *)
(***************************************************************************)
EXTENDS Integers, Sequences, FiniteSets, TLC

(***************************************************************************)
(* Bounds of the model.                                                    *)
(***************************************************************************)
\* number of lexicon parts a generated file name is made of (at most)
MaxNameParts == 2
\* number of lexicon parts a generated file content is made of (at most)
MaxContentParts == 2
\* number of files in a scanned directory tree (at most)
MaxFiles == 2

(***************************************************************************)
(* Python string primitives.                                               *)
(***************************************************************************)
UPPER == <<"A", "B", "C", "D", "E", "F", "G", "H", "I", "J", "K", "L", "M", "N", "O", "P", "Q", "R", "S", "T", "U", "V", "W", "X", "Y", "Z">>
LOWER == <<"a", "b", "c", "d", "e", "f", "g", "h", "i", "j", "k", "l", "m", "n", "o", "p", "q", "r", "s", "t", "u", "v", "w", "x", "y", "z">>
DIGITS == <<"0", "1", "2", "3", "4", "5", "6", "7", "8", "9">>

Range(s) == {s[i] : i \in 1..Len(s)}

\* the lowercase letter of every uppercase letter
UpperToLower ==
    [u \in Range(UPPER) |-> LOWER[CHOOSE i \in 1..Len(UPPER) : UPPER[i] = u]]

\* str.lower() of one character
LowerCh(ch) == IF ch \in DOMAIN UpperToLower THEN UpperToLower[ch] ELSE ch

\* str.lower()
Lower(s) == [i \in 1..Len(s) |-> LowerCh(s[i])]

\* sub in s
Contains(s, sub) ==
    \E i \in 0..(Len(s) - Len(sub)) : SubSeq(s, i + 1, i + Len(sub)) = sub

\* s.endswith(suf)
EndsWith(s, suf) ==
    /\ Len(suf) <= Len(s)
    /\ SubSeq(s, Len(s) - Len(suf) + 1, Len(s)) = suf

\* s.split(ch)[-1]: what follows the last ch, the whole of s when it has none
SplitLast(s, ch) ==
    LET at == {i \in 1..Len(s) : s[i] = ch}
    IN  IF at = {} THEN s
        ELSE SubSeq(s, (CHOOSE i \in at : \A j \in at : j <= i) + 1, Len(s))

\* s.replace(old, new) for one-character old and new
Replace(s, old, new) == [i \in 1..Len(s) |-> IF s[i] = old THEN new ELSE s[i]]

\* s.count('\n', 0, stop): stop is a 0-based exclusive end, i.e. the
\* 1-based indices 1..stop
RECURSIVE CountNewlines(_, _)
CountNewlines(s, stop) ==
    IF stop <= 0 THEN 0
    ELSE CountNewlines(s, stop - 1) + (IF s[stop] = "\n" THEN 1 ELSE 0)

\* os.path.join(root, f) followed by os.path.relpath(path, root_dir): the
\* directory names below the scan root and the file name, joined by the
\* separator
RECURSIVE JoinPath(_, _)
JoinPath(dirs, f) ==
    IF dirs = <<>> THEN f
    ELSE Head(dirs) \o <<"/">> \o JoinPath(Tail(dirs), f)

\* os.path.basename(p)
Basename(p) == SplitLast(p, "/")

(***************************************************************************)
(* Configuration (module level constants of xray.py).                      *)
(***************************************************************************)
TEXT_EXTENSIONS ==
    << <<".", "t", "s">>, <<".", "j", "s">>, <<".", "p", "y">>, <<".", "j", "a", "v", "a">>, <<".", "g", "r", "o", "o", "v", "y">>, <<".", "g", "r", "a", "d", "l", "e">>, <<".", "t", "s", "x">>,
       <<".", "j", "s", "x">>, <<".", "s", "h">>, <<".", "y", "m", "l">>, <<".", "y", "a", "m", "l">>, <<".", "j", "s", "o", "n">>, <<".", "m", "d">>, <<".", "t", "x", "t">>,
       <<".", "x", "m", "l">>, <<".", "d", "o", "c", "k", "e", "r", "f", "i", "l", "e">>, <<".", "p", "r", "o", "p", "e", "r", "t", "i", "e", "s">>, <<".", "c", "s">>, <<".", "g", "o">>, <<".", "r", "b">>,
       <<".", "p", "h", "p">>, <<".", "r", "s">>, <<".", "t", "f">> >>

EXTENSIONLESS == << <<"D", "o", "c", "k", "e", "r", "f", "i", "l", "e">>, <<"J", "e", "n", "k", "i", "n", "s", "f", "i", "l", "e">> >>

IGNORED ==
    { <<"n", "o", "d", "e", "_", "m", "o", "d", "u", "l", "e", "s">>, <<".", "g", "i", "t">>, <<"v", "e", "n", "v">>, <<"d", "i", "s", "t">>, <<"b", "i", "n">>, <<"o", "b", "j">>,
      <<".", "i", "d", "e", "a">>, <<"t", "a", "r", "g", "e", "t">>, <<".", "v", "s", "c", "o", "d", "e">> }

\* Admitted with the name lowercased before it is tested
AdmittedIgnoringCase(f) ==
    \/ \E i \in 1..Len(TEXT_EXTENSIONS) : EndsWith(Lower(f), TEXT_EXTENSIONS[i])
    \/ \E i \in 1..Len(EXTENSIONLESS) : Lower(f) = Lower(EXTENSIONLESS[i])

\* f.endswith(TEXT_EXTENSIONS) or f in ['Dockerfile', 'Jenkinsfile']
Admitted(f) ==
    \/ \E i \in 1..Len(TEXT_EXTENSIONS) : EndsWith(f, TEXT_EXTENSIONS[i])
    \/ \E i \in 1..Len(EXTENSIONLESS) : f = EXTENSIONLESS[i]

(***************************************************************************)
(* get_file_purpose: a cascade of substring tests on the lowercased name.  *)
(***************************************************************************)
\* get_file_purpose with the test rule moved to the front of the cascade
PurposeTestsFirst(filename, content) ==
    LET name == Lower(filename) IN
    IF Contains(name, <<"t", "e", "s", "t">>) \/ Contains(name, <<"s", "p", "e", "c">>) THEN "Test Script"
    ELSE IF Contains(name, <<"p", "a", "c", "k", "a", "g", "e", ".", "j", "s", "o", "n">>) THEN "Node.js Dependencies"
    ELSE IF Contains(name, <<"p", "o", "m", ".", "x", "m", "l">>) THEN "Maven Build Config"
    ELSE IF Contains(name, <<"b", "u", "i", "l", "d", ".", "g", "r", "a", "d", "l", "e">>) THEN "Gradle Build Config"
    ELSE IF Contains(name, <<"r", "e", "q", "u", "i", "r", "e", "m", "e", "n", "t", "s", ".", "t", "x", "t">>) THEN "Python Dependencies"
    ELSE IF Contains(name, <<"d", "o", "c", "k", "e", "r", "-", "c", "o", "m", "p", "o", "s", "e">>) THEN "Docker Services"
    ELSE IF Contains(name, <<"d", "o", "c", "k", "e", "r", "f", "i", "l", "e">>) THEN "Container Definition"
    ELSE IF Contains(name, <<"j", "e", "n", "k", "i", "n", "s", "f", "i", "l", "e">>) THEN "Jenkins Pipeline"
    ELSE IF Contains(name, <<"p", "l", "a", "y", "w", "r", "i", "g", "h", "t", ".", "c", "o", "n", "f", "i", "g">>) THEN "Playwright Config"
    ELSE IF Contains(name, <<"c", "y", "p", "r", "e", "s", "s", ".", "c", "o", "n", "f", "i", "g">>) THEN "Cypress Config"
    ELSE IF Contains(name, <<"r", "e", "a", "d", "m", "e", ".", "m", "d">>) THEN "Project Documentation"
    ELSE IF Contains(name, <<".", "e", "n", "v">>) THEN "Environment Config"
    ELSE IF Contains(name, <<".", "g", "i", "t", "i", "g", "n", "o", "r", "e">>) THEN "Git Ignore"
    ELSE IF Contains(name, <<".", "j", "a", "v", "a">>) THEN "Java Source"
    ELSE IF Contains(name, <<".", "p", "y">>) THEN "Python Source"
    ELSE IF Contains(name, <<".", "j", "s">>) \/ Contains(name, <<".", "t", "s">>) THEN "JS/TS Source"
    ELSE IF Contains(name, <<".", "g", "r", "o", "o", "v", "y">>) THEN "Katalon Script"
    ELSE IF Contains(name, <<".", "c", "s">>) THEN "C# Source"
    ELSE "Source File"

\* get_file_purpose(filename, content); content is not looked at
get_file_purpose(filename, content) ==
    LET name == Lower(filename) IN
    IF Contains(name, <<"p", "a", "c", "k", "a", "g", "e", ".", "j", "s", "o", "n">>) THEN "Node.js Dependencies"
    ELSE IF Contains(name, <<"p", "o", "m", ".", "x", "m", "l">>) THEN "Maven Build Config"
    ELSE IF Contains(name, <<"b", "u", "i", "l", "d", ".", "g", "r", "a", "d", "l", "e">>) THEN "Gradle Build Config"
    ELSE IF Contains(name, <<"r", "e", "q", "u", "i", "r", "e", "m", "e", "n", "t", "s", ".", "t", "x", "t">>) THEN "Python Dependencies"
    ELSE IF Contains(name, <<"d", "o", "c", "k", "e", "r", "-", "c", "o", "m", "p", "o", "s", "e">>) THEN "Docker Services"
    ELSE IF Contains(name, <<"d", "o", "c", "k", "e", "r", "f", "i", "l", "e">>) THEN "Container Definition"
    ELSE IF Contains(name, <<"j", "e", "n", "k", "i", "n", "s", "f", "i", "l", "e">>) THEN "Jenkins Pipeline"
    ELSE IF Contains(name, <<"p", "l", "a", "y", "w", "r", "i", "g", "h", "t", ".", "c", "o", "n", "f", "i", "g">>) THEN "Playwright Config"
    ELSE IF Contains(name, <<"c", "y", "p", "r", "e", "s", "s", ".", "c", "o", "n", "f", "i", "g">>) THEN "Cypress Config"
    ELSE IF Contains(name, <<"r", "e", "a", "d", "m", "e", ".", "m", "d">>) THEN "Project Documentation"
    ELSE IF Contains(name, <<".", "e", "n", "v">>) THEN "Environment Config"
    ELSE IF Contains(name, <<".", "g", "i", "t", "i", "g", "n", "o", "r", "e">>) THEN "Git Ignore"
    ELSE IF Contains(name, <<"t", "e", "s", "t">>) \/ Contains(name, <<"s", "p", "e", "c">>) THEN "Test Script"
    ELSE IF Contains(name, <<".", "j", "a", "v", "a">>) THEN "Java Source"
    ELSE IF Contains(name, <<".", "p", "y">>) THEN "Python Source"
    ELSE IF Contains(name, <<".", "j", "s">>) \/ Contains(name, <<".", "t", "s">>) THEN "JS/TS Source"
    ELSE IF Contains(name, <<".", "g", "r", "o", "o", "v", "y">>) THEN "Katalon Script"
    ELSE IF Contains(name, <<".", "c", "s">>) THEN "C# Source"
    ELSE "Source File"

(***************************************************************************)
(* Regular expressions.  A pattern of the risk catalog is an alternation   *)
(* of element sequences; an element is a literal, a run of whitespace      *)
(* (\s* or \s+), a quote (["']) or a run of non-quotes ([^"']+).  In every *)
(* pattern of the catalog the character that must follow a run is outside  *)
(* the run's class, so the greedy match is the only match.                 *)
(***************************************************************************)
WS == {" ", "\t", "\n", "\r"}
QUOTES == {"\"", "'"}
WORD == Range(UPPER) \cup Range(LOWER) \cup Range(DIGITS) \cup {"_"}

Lit(w) == [k |-> "lit", w |-> w, min |-> 0]
Ws(min) == [k |-> "ws", w |-> <<>>, min |-> min]
Quote == [k |-> "quote", w |-> <<>>, min |-> 1]
NonQuotes == [k |-> "nonquotes", w |-> <<>>, min |-> 1]

\* the literal w at 1-based position i of c; ic: re.IGNORECASE
LitAt(c, i, w, ic) ==
    /\ i + Len(w) - 1 <= Len(c)
    /\ \A j \in 1..Len(w) :
          IF ic THEN LowerCh(c[i + j - 1]) = LowerCh(w[j]) ELSE c[i + j - 1] = w[j]

\* the first position at or after i whose character is outside class
RECURSIVE SkipClass(_, _, _)
SkipClass(c, i, class) ==
    IF i <= Len(c) /\ c[i] \in class THEN SkipClass(c, i + 1, class) ELSE i

\* the first position at or after i that holds a quote (Len(c)+1 if none)
RECURSIVE SkipNonQuotes(_, _)
SkipNonQuotes(c, i) ==
    IF i <= Len(c) /\ c[i] \notin QUOTES THEN SkipNonQuotes(c, i + 1) ELSE i

\* The position after the match of the element sequence elems at position
\* i of c, 0 if it does not match there.
RECURSIVE MatchSeq(_, _, _, _)
MatchSeq(elems, c, i, ic) ==
    IF elems = <<>> THEN i
    ELSE LET e == Head(elems)
             j == CASE e.k = "lit" -> IF LitAt(c, i, e.w, ic) THEN i + Len(e.w) ELSE 0
                    [] e.k = "ws" ->
                         LET n == SkipClass(c, i, WS) IN IF n - i >= e.min THEN n ELSE 0
                    [] e.k = "quote" -> IF i <= Len(c) /\ c[i] \in QUOTES THEN i + 1 ELSE 0
                    [] e.k = "nonquotes" ->
                         LET n == SkipNonQuotes(c, i) IN IF n - i >= e.min THEN n ELSE 0
         IN  IF j = 0 THEN 0 ELSE MatchSeq(Tail(elems), c, j, ic)

\* An alternation (a|b|...) followed by tail: the first alternative, in
\* order, with which the whole pattern matches at i.
RECURSIVE MatchAlt(_, _, _, _, _)
MatchAlt(alts, tail, c, i, ic) ==
    IF alts = <<>> THEN 0
    ELSE LET a == MatchSeq(Head(alts), c, i, ic)
             j == IF a = 0 THEN 0 ELSE MatchSeq(tail, c, a, ic)
         IN  IF j # 0 THEN j ELSE MatchAlt(Tail(alts), tail, c, i, ic)

\* \s*=\s*["'][^"']+["']
ASSIGN_TAIL == << Ws(0), Lit(<<"=">>), Ws(0), Quote, NonQuotes, Quote >>

RISK_PATTERNS ==
    << [type |-> "Hardcoded Password",
        alts |-> << <<Lit(<<"p", "a", "s", "s", "w", "o", "r", "d">>)>>, <<Lit(<<"p", "a", "s", "s", "w", "d">>)>>, <<Lit(<<"p", "w", "d">>)>> >>,
        tail |-> ASSIGN_TAIL,
        severity |-> "High", fix |-> "Move to environment variables."],
       [type |-> "API Key / Secret",
        alts |-> << <<Lit(<<"a", "p", "i", "_", "k", "e", "y">>)>>, <<Lit(<<"s", "e", "c", "r", "e", "t">>)>>, <<Lit(<<"t", "o", "k", "e", "n">>)>> >>,
        tail |-> ASSIGN_TAIL,
        severity |-> "Critical", fix |-> "Revoke and use a Vault."],
       [type |-> "Hardcoded Sleep",
        alts |-> << <<Lit(<<"t", "i", "m", "e", ".", "s", "l", "e", "e", "p">>)>>, <<Lit(<<"T", "h", "r", "e", "a", "d", ".", "s", "l", "e", "e", "p">>)>>,
                    <<Lit(<<"a", "w", "a", "i", "t">>), Ws(1), Lit(<<"p", "a", "g", "e", ".", "w", "a", "i", "t", "F", "o", "r", "T", "i", "m", "e", "o", "u", "t">>)>>,
                    <<Lit(<<"W", "e", "b", "U", "I", ".", "d", "e", "l", "a", "y">>)>> >>,
        tail |-> <<>>,
        severity |-> "Medium", fix |-> "Use explicit waits."],
       [type |-> "Console Log",
        alts |-> << <<Lit(<<"c", "o", "n", "s", "o", "l", "e", ".", "l", "o", "g">>)>>, <<Lit(<<"S", "y", "s", "t", "e", "m", ".", "o", "u", "t", ".", "p", "r", "i", "n", "t">>)>>,
                    <<Lit(<<"p", "r", "i", "n", "t", "(">>)>>, <<Lit(<<"p", "r", "i", "n", "t", "l", "n">>)>> >>,
        tail |-> <<>>,
        severity |-> "Low", fix |-> "Use a Logger."] >>

\* re.finditer(pat, content, re.IGNORECASE): the start offsets (0-based, as
\* m.start()) of the non-overlapping matches, scanning from 1-based
\* position i.  No pattern of the catalog matches the empty string.
RECURSIVE FindIter(_, _, _)
FindIter(pat, c, i) ==
    IF i > Len(c) THEN <<>>
    ELSE LET j == MatchAlt(pat.alts, pat.tail, c, i, TRUE)
         IN  IF j = 0 THEN FindIter(pat, c, i + 1)
             ELSE <<i - 1>> \o FindIter(pat, c, j)

(***************************************************************************)
(* Risk detection (scan_project, the loop over RISK_PATTERNS).             *)
(***************************************************************************)
\* LineOf without the + 1: lines counted from 0
LineOfZeroBased(content, start) == CountNewlines(content, start)

\* line = content.count('\n', 0, m.start()) + 1
LineOf(content, start) == CountNewlines(content, start) + 1

\* the inner loop: one finding per match of one catalog entry
RisksOf(pat, content) ==
    LET starts == FindIter(pat, content, 1)
    IN  [i \in 1..Len(starts) |->
            [type |-> pat.type, line |-> LineOf(content, starts[i]),
             severity |-> pat.severity, fix |-> pat.fix]]

\* ScanRisks with the catalog gone through from its last entry to its first
RECURSIVE ScanRisksBackwards(_, _)
ScanRisksBackwards(pats, content) ==
    IF pats = <<>> THEN <<>>
    ELSE ScanRisksBackwards(Tail(pats), content) \o RisksOf(Head(pats), content)

\* the outer loop: the catalog entries in catalog order
RECURSIVE ScanRisks(_, _)
ScanRisks(pats, content) ==
    IF pats = <<>> THEN <<>>
    ELSE RisksOf(Head(pats), content) \o ScanRisks(Tail(pats), content)

(***************************************************************************)
(* Objective detection.                                                    *)
(***************************************************************************)
Objectives(f, content) ==
    IF Contains(Lower(f), <<"t", "e", "s", "t">>) \/ Contains(Lower(f), <<"s", "p", "e", "c">>)
    THEN IF Contains(content, <<"@", "T", "e", "s", "t">>) THEN << "Java/TestNG Test" >>
         ELSE IF Contains(content, <<"t", "e", "s", "t", "(">>) THEN << "JS/Playwright Test" >>
         ELSE << "Automated Script" >>
    ELSE <<>>

(***************************************************************************)
(* Import extraction.  re.findall is called without flags: the patterns    *)
(* are case-sensitive and ^ matches at the start of the content only.      *)
(***************************************************************************)
IMPORT_KEYS == { <<"t", "s">>, <<"j", "s">>, <<"p", "y">>, <<"j", "a", "v", "a">>, <<"g", "r", "o", "o", "v", "y">> }

\* [\w\s{},*]
ES_CLASS == WORD \cup WS \cup {"{", "}", ",", "*"}
\* [\w\.]
DOTTED == WORD \cup {"."}

NoMatch == [end |-> 0, groups |-> <<>>]

\* ['"]([^'"]+)['"] at position i, followed by the literal after
QuotedAt(c, i, after) ==
    LET q == SkipNonQuotes(c, i + 1)
    IN  IF /\ i <= Len(c) /\ c[i] \in QUOTES
           /\ q > i + 1 /\ q <= Len(c)
           /\ LitAt(c, q + 1, after, FALSE)
        THEN [end |-> q + 1 + Len(after), groups |-> <<SubSeq(c, i + 1, q - 1)>>]
        ELSE NoMatch

\* (?:import|export)\s+(?:[\w\s{},*]+)\s+from\s+['"]([^'"]+)['"] at i.
\* Every character between the keyword and the opening quote is in the
\* class [\w\s{},*], and the quote is not: the text between them is the
\* maximal class run after the keyword, and it has to read
\* \s X+ \s+ from \s+ for the three quantified parts to share it out.
EsFromAt(c, i) ==
    IF ~(LitAt(c, i, <<"i", "m", "p", "o", "r", "t">>, FALSE) \/ LitAt(c, i, <<"e", "x", "p", "o", "r", "t">>, FALSE)) THEN NoMatch
    ELSE LET p == i + 6
             e == SkipClass(c, p, ES_CLASS)
             nonws == {t \in p..(e - 1) : c[t] \notin WS}
             t == IF nonws = {} THEN 0 ELSE CHOOSE x \in nonws : \A y \in nonws : y <= x
             m == QuotedAt(c, e, <<>>)
         IN  IF /\ t # 0 /\ t <= e - 2
                /\ t - 3 >= p /\ SubSeq(c, t - 3, t) = <<"f", "r", "o", "m">>
                /\ (t - 4) - p + 1 >= 3
                /\ c[p] \in WS /\ c[t - 4] \in WS
             THEN m
             ELSE NoMatch

\* require\(['"]([^'"]+)['"]\) at i
EsRequireAt(c, i) ==
    IF LitAt(c, i, <<"r", "e", "q", "u", "i", "r", "e", "(">>, FALSE) THEN QuotedAt(c, i + 8, <<")">>) ELSE NoMatch

\* The 'ts' and 'js' pattern at i: the groups of the match are
\* (group 1, group 2), the one of the alternative not taken being ''.
EsAt(c, i) ==
    LET a == EsFromAt(c, i)
        b == EsRequireAt(c, i)
    IN  IF a.end # 0 THEN [end |-> a.end, groups |-> <<a.groups[1], <<>>>>]
        ELSE IF b.end # 0 THEN [end |-> b.end, groups |-> <<<<>>, b.groups[1]>>]
        ELSE NoMatch

\* ^kw\s+([\w\.]+)after for the keywords kws in order, at the start of c
AnchoredAt(c, kws, after) ==
    LET hit == {k \in 1..Len(kws) : LitAt(c, 1, kws[k], FALSE)}
    IN  IF hit = {} THEN NoMatch
        ELSE LET kw == kws[CHOOSE k \in hit : \A h \in hit : k <= h]
                 s == SkipClass(c, Len(kw) + 1, WS)
                 d == SkipClass(c, s, DOTTED)
             IN  IF s > Len(kw) + 1 /\ d > s /\ LitAt(c, d, after, FALSE)
                 THEN [end |-> d + Len(after), groups |-> <<SubSeq(c, s, d - 1)>>]
                 ELSE NoMatch

\* one match attempt of IMPORT_PATTERNS[key] at 1-based position i
ImportMatchAt(key, c, i) ==
    CASE key \in {<<"t", "s">>, <<"j", "s">>} -> EsAt(c, i)
      [] key = <<"p", "y">> ->
            IF i = 1 THEN AnchoredAt(c, <<<<"f", "r", "o", "m">>, <<"i", "m", "p", "o", "r", "t">>>>, <<>>) ELSE NoMatch
      [] key = <<"j", "a", "v", "a">> ->
            IF i = 1 THEN AnchoredAt(c, <<<<"i", "m", "p", "o", "r", "t">>>>, <<";">>) ELSE NoMatch
      [] key = <<"g", "r", "o", "o", "v", "y">> ->
            IF i = 1 THEN AnchoredAt(c, <<<<"i", "m", "p", "o", "r", "t">>>>, <<>>) ELSE NoMatch

\* the matches of IMPORT_PATTERNS[key] in c, left to right, not overlapping:
\* the captured groups of each
RECURSIVE ImportMatches(_, _, _)
ImportMatches(key, c, i) ==
    IF i > Len(c) THEN <<>>
    ELSE LET m == ImportMatchAt(key, c, i)
         IN  IF m.end = 0 THEN ImportMatches(key, c, i + 1)
             ELSE <<m.groups>> \o ImportMatches(key, c, m.end)

\* re.findall(pattern, content): for a pattern with one group the list of
\* that group's strings (str TRUE), for a pattern with several groups the
\* list of the tuples of groups.
FindAll(key, c) ==
    LET ms == ImportMatches(key, c, 1)
    IN  [i \in 1..Len(ms) |->
            IF Len(ms[i]) = 1 THEN [str |-> TRUE, item |-> ms[i][1]]
            ELSE [str |-> FALSE, item |-> ms[i]]]

\* (x for x in m): iterating a tuple yields its elements, iterating a
\* string yields its characters as strings of length one
Iterate(m) ==
    IF m.str THEN [i \in 1..Len(m.item) |-> <<m.item[i]>>] ELSE m.item

\* next((x for x in m if x), None); None is modelled by the empty string,
\* which is falsy as well
FirstTruthy(m) ==
    LET xs == Iterate(m)
        ok == {i \in 1..Len(xs) : xs[i] # <<>>}
    IN  IF ok = {} THEN <<>> ELSE xs[CHOOSE i \in ok : \A j \in ok : i <= j]

\* the loop over re.findall: if imp: imports.append(imp)
RECURSIVE CollectImports(_)
CollectImports(found) ==
    IF found = <<>> THEN <<>>
    ELSE LET imp == FirstTruthy(Head(found))
         IN  (IF imp # <<>> THEN <<imp>> ELSE <<>>) \o CollectImports(Tail(found))

\* key = ('.' + f.split('.')[-1])[1:]
ExtKey(f) == SplitLast(f, ".")

ExtractImports(f, content) ==
    IF ExtKey(f) \in IMPORT_KEYS THEN CollectImports(FindAll(ExtKey(f), content))
    ELSE <<>>

(***************************************************************************)
(* The record scan_project stores for one file that was read.              *)
(***************************************************************************)
FileRecord(f, content) ==
    [purpose |-> get_file_purpose(f, content),
     risks |-> ScanRisks(RISK_PATTERNS, content),
     objectives |-> Objectives(f, content),
     raw_imports |-> ExtractImports(f, content)]

(***************************************************************************)
(* State.                                                                  *)
(***************************************************************************)
VARIABLES
    \* one file under analysis (the per-file functions applied to inputs)
    f,              \* its name
    content,        \* its text
    record,         \* <<>> or <<the record scan_project builds for it>>
    purpose,        \* "" or the result of get_file_purpose
    \* the program run (__main__)
    pc,             \* position of the program
    target,         \* sys.argv[1]
    localDir,       \* the directory target names: "present", "missing", "removed"
    tree,           \* what the scanned directory holds
    tempDir,        \* the mkdtemp directory: "none", "present", "removed"
    path,           \* "target" or "temp"
    is_temp,
    raised,         \* an exception is propagating out of the try block
    \* scan_project
    stack,          \* os.walk: directories still to visit (as depths)
    curDir,         \* os.walk: the directory being listed
    curFiles,       \* its files not yet looked at
    files_data,     \* dict, in insertion order: <<[path, rec], ...>>
    gi, gj,         \* graph loops: index of the file, index of its import
    graph_edges,
    used_by

fileVars == <<f, content, record, purpose>>
mainVars == <<pc, target, localDir, tree, tempDir, path, is_temp, raised>>
scanVars == <<stack, curDir, curFiles, files_data, gi, gj, graph_edges, used_by>>
vars == <<f, content, record, purpose,
          pc, target, localDir, tree, tempDir, path, is_temp, raised,
          stack, curDir, curFiles, files_data, gi, gj, graph_edges, used_by>>

EmptyDict == [x \in {} |-> {}]

(***************************************************************************)
(* Inputs.                                                                 *)
(***************************************************************************)
\* all concatenations of at most n parts
RECURSIVE Concats(_, _)
Concats(parts, n) ==
    IF n = 0 THEN {<<>>}
    ELSE LET shorter == Concats(parts, n - 1)
         IN  shorter \cup {p \o s : p \in parts, s \in shorter}

NAME_PARTS ==
    { <<"p", "a", "c", "k", "a", "g", "e", ".", "j", "s", "o", "n">>, <<"p", "o", "m", ".", "x", "m", "l">>, <<"D", "o", "c", "k", "e", "r", "f", "i", "l", "e">>, <<"R", "E", "A", "D", "M", "E", ".", "m", "d">>, <<".", "e", "n", "v">>,
      <<".", "t", "e", "s", "t">>, <<"S", "p", "e", "c">>, <<".", "j", "a", "v", "a">>, <<".", "p", "y">>, <<".", "j", "s">>, <<"a">>, <<".", "e", "x", "e">> }

CONTENT_PARTS ==
    { <<"\n">>, <<"p", "w", "d", "=", "'", "x", "'">>, <<"T", "o", "k", "e", "n", " ", "=", " ", "\"", "k", "\"">>, <<"p", "r", "i", "n", "t", "(">>,
      <<"i", "m", "p", "o", "r", "t", " ", "a", " ", "f", "r", "o", "m", " ", "'", "b", "/", "c", "'">>, <<"r", "e", "q", "u", "i", "r", "e", "(", "'", "d", "'", ")">>, <<"i", "m", "p", "o", "r", "t", " ", "o", "s">>, <<"i", "m", "p", "o", "r", "t", " ", "a", ".", "B", ";">> }

SAMPLE_NAMES ==
    { <<"a", ".", "t", "s">>, <<"b", ".", "j", "s">>, <<"c", ".", "p", "y">>, <<"D", ".", "j", "a", "v", "a">>, <<"e", ".", "g", "r", "o", "o", "v", "y">>, <<"t", "e", "s", "t", ".", "m", "d">>,
      <<"D", "o", "c", "k", "e", "r", "f", "i", "l", "e">> }

SAMPLE_CONTENTS == { <<"p", "r", "i", "n", "t", "(", "\n", "p", "w", "d", "=", "'", "x", "'", " ", "p", "r", "i", "n", "t", "(", "p", "r", "i", "n", "t", "(">> }

FileInputs ==
    (Concats(NAME_PARTS, MaxNameParts) \X SAMPLE_CONTENTS)
        \cup (SAMPLE_NAMES \X Concats(CONTENT_PARTS, MaxContentParts))

\* the files a scanned tree is made of: name, content, whether open() and
\* read succeed
FILE_SAMPLES ==
    << [name |-> <<"l", "o", "g", "i", "n", ".", "j", "s">>, readable |-> TRUE,
        content |-> <<"i", "m", "p", "o", "r", "t", " ", "a", " ", "f", "r", "o", "m", " ", "'", ".", ".", "/", "u", "/", "a", "u", "t", "h", "'", "\n", "r", "e", "q", "u", "i", "r", "e", "(", "'", ".", "/", "a", "'", ")">>],
       [name |-> <<"b", ".", "j", "s">>, readable |-> TRUE,
        content |-> <<"r", "e", "q", "u", "i", "r", "e", "(", "'", "a", "u", "t", "h", "'", ")", "r", "e", "q", "u", "i", "r", "e", "(", "'", "a", "u", "t", "h", "'", ")", "r", "e", "q", "u", "i", "r", "e", "(", "'", "b", "/", "'", ")">>],
       [name |-> <<"a", "p", "p", ".", "e", "x", "e">>, readable |-> TRUE, content |-> <<"p", "w", "d", "=", "'", "x", "'">>],
       [name |-> <<"A", ".", "J", "S">>, readable |-> TRUE, content |-> <<"r", "e", "q", "u", "i", "r", "e", "(", "'", "f", "s", "'", ")">>],
       [name |-> <<"D", "o", "c", "k", "e", "r", "f", "i", "l", "e">>, readable |-> TRUE, content |-> <<"x">>],
       [name |-> <<"b", "a", "d", ".", "t", "s">>, readable |-> FALSE, content |-> <<"r", "e", "q", "u", "i", "r", "e", "(", "'", "f", "s", "'", ")">>] >>

\* the chains of nested directories of the trees: an ignored directory in a
\* scanned one, and a directory in an ignored one
DIR_CHAINS == { << <<"s", "r", "c">>, <<"n", "o", "d", "e", "_", "m", "o", "d", "u", "l", "e", "s">> >>, << <<"n", "o", "d", "e", "_", "m", "o", "d", "u", "l", "e", "s">>, <<"s", "r", "c">> >> }

TARGETS == { <<"h", "t", "t", "p", "s", ":", "/", "/", "g", "i", "t", "h", "u", "b", ".", "c", "o", "m", "/", "u", "/", "r">>, <<"p", "r", "o", "j">> }

\* the subsets of S with at most n elements
RECURSIVE SubsetsUpTo(_, _)
SubsetsUpTo(S, n) ==
    IF n = 0 THEN {{}}
    ELSE LET smaller == SubsetsUpTo(S, n - 1)
         IN  smaller \cup {x \cup {e} : x \in smaller, e \in S}

\* a tree: a chain of nested directories below the root (dirs[1] in the
\* root, dirs[2] in dirs[1]), and files placed at the root (depth 0) or in
\* one of the directories; a file is named by its index in FILE_SAMPLES
Entries(dirs) ==
    {[depth |-> d, id |-> i] : d \in 0..Len(dirs), i \in 1..Len(FILE_SAMPLES)}

\* the file of a tree entry
File(e) == FILE_SAMPLES[e.id]

Trees ==
    UNION {{[dirs |-> ds, files |-> fs] : fs \in SubsetsUpTo(Entries(ds), MaxFiles)} :
              ds \in DIR_CHAINS}

EmptyTree == [dirs |-> <<>>, files |-> {}]

(***************************************************************************)
(* The per-file functions applied to one file name and content.            *)
(***************************************************************************)
\* what the program's variables hold while no program runs
MainIdle ==
    /\ pc = "idle" /\ target = <<>> /\ localDir = "missing" /\ tree = EmptyTree
    /\ tempDir = "none" /\ path = "target"
    /\ is_temp = FALSE /\ raised = FALSE

ScanIdle ==
    /\ stack = <<>> /\ curDir = 0 /\ curFiles = {} /\ files_data = <<>>
    /\ gi = 1 /\ gj = 1 /\ graph_edges = <<>> /\ used_by = EmptyDict

FileInit ==
    /\ \E in \in FileInputs : f = in[1] /\ content = in[2]
    /\ record = <<>>
    /\ purpose = ""
    /\ MainIdle
    /\ ScanIdle

\* purpose = get_file_purpose(f, content)
CallPurpose ==
    /\ pc = "idle"
    /\ purpose = ""
    /\ purpose' = get_file_purpose(f, content)
    /\ UNCHANGED <<f, content, record, mainVars, scanVars>>

\* the body of the try block for one admitted file whose read succeeds
AnalyseFile ==
    /\ pc = "idle"
    /\ record = <<>>
    /\ Admitted(f)
    /\ record' = <<FileRecord(f, content)>>
    /\ UNCHANGED <<f, content, purpose, mainVars, scanVars>>

FileNext == CallPurpose \/ AnalyseFile

FileSpec == FileInit /\ [][FileNext]_vars

(***************************************************************************)
(* The program: __main__ and, inside it, scan_project step by step.        *)
(***************************************************************************)
Init ==
    /\ f = <<>> /\ content = <<>> /\ record = <<>> /\ purpose = ""
    /\ pc = "start"
    /\ target \in TARGETS
    \* a remote target names no local directory; the repository, or the
    \* local directory when there is one, holds some tree
    /\ \/ Contains(target, <<"g", "i", "t", "h", "u", "b", ".", "c", "o", "m">>) /\ localDir = "missing" /\ tree \in Trees
       \/ ~Contains(target, <<"g", "i", "t", "h", "u", "b", ".", "c", "o", "m">>) /\ localDir = "present" /\ tree \in Trees
       \/ ~Contains(target, <<"g", "i", "t", "h", "u", "b", ".", "c", "o", "m">>) /\ localDir = "missing" /\ tree = EmptyTree
    /\ tempDir = "none"
    /\ path = "target" /\ is_temp = FALSE /\ raised = FALSE
    /\ ScanIdle

\* os.unlink / os.rmdir of an entry: refused for a read-only one
Unlink(readonly) == ~readonly

\* handle_remove_readonly without the chmod: func(path) again as it is
HandlerWithoutChmod(readonly) == Unlink(readonly)

\* handle_remove_readonly(func, path, exc): os.chmod(path, stat.S_IWRITE),
\* then func(path) again
handle_remove_readonly(readonly) ==
    LET afterChmod == FALSE IN Unlink(afterChmod)

\* shutil.rmtree(dir, onerror=handle_remove_readonly): the state of the
\* directory afterwards
RmTree(readonly) ==
    IF Unlink(readonly) \/ handle_remove_readonly(readonly) THEN "removed" ELSE "present"

\* if "github.com" in target: temp_dir = tempfile.mkdtemp()
MainRemote ==
    /\ pc = "start"
    /\ Contains(target, <<"g", "i", "t", "h", "u", "b", ".", "c", "o", "m">>)
    /\ tempDir' = "present"
    /\ pc' = "clone"
    /\ UNCHANGED <<fileVars, target, localDir, tree, path, is_temp, raised, scanVars>>

\* otherwise path stays target
MainLocal ==
    /\ pc = "start"
    /\ ~Contains(target, <<"g", "i", "t", "h", "u", "b", ".", "c", "o", "m">>)
    /\ pc' = "scan"
    /\ UNCHANGED <<fileVars, target, localDir, tree, tempDir, path, is_temp,
                   raised, scanVars>>

\* git clone succeeds: the temporary directory holds the repository;
\* path = temp_dir; is_temp = True
CloneOk ==
    /\ pc = "clone"
    /\ path' = "temp"
    /\ is_temp' = TRUE
    /\ pc' = "scan"
    /\ UNCHANGED <<fileVars, target, localDir, tree, tempDir, raised, scanVars>>

\* git clone fails: except: shutil.rmtree(temp_dir, ...); sys.exit(1).
\* What git left in the directory may hold read-only entries.
CloneFail ==
    /\ pc = "clone"
    /\ \E ro \in BOOLEAN : tempDir' = RmTree(ro)
    /\ pc' = "exit1"
    /\ UNCHANGED <<fileVars, target, localDir, tree, path, is_temp, raised, scanVars>>

\* the directory path names exists
RootExists == IF path = "temp" THEN tempDir = "present" ELSE localDir = "present"

\* os.walk lists the directory at depth d of the chain: its subdirectories
SubDirs(d) == IF d < Len(tree.dirs) THEN <<tree.dirs[d + 1]>> ELSE <<>>

\* the names of the directories from the scan root down to depth d
DirPath(d) == SubSeq(tree.dirs, 1, d)

\* Prune that removes nothing (the filtered list bound to a new name
\* instead of being assigned to dirs[:])
PruneNothing(dirs) == dirs

\* dirs[:] = [d for d in dirs if d not in IGNORED]
Prune(dirs) == SelectSeq(dirs, LAMBDA d : d \notin IGNORED)

\* rel_path = os.path.relpath(os.path.join(root, f), root_dir).replace('\\', '/')
RelPath(d, name) == Replace(JoinPath(DirPath(d), name), "\\", "/")

\* files_data[key] = rec on a dict that keeps insertion order
DictSet(dict, key, rec) ==
    IF \E i \in 1..Len(dict) : dict[i].path = key
    THEN [i \in 1..Len(dict) |->
             IF dict[i].path = key THEN [path |-> key, rec |-> rec] ELSE dict[i]]
    ELSE Append(dict, [path |-> key, rec |-> rec])

\* scan_project(path): files_data = {}; os.walk(root_dir) starts at the
\* root, and yields nothing when the root cannot be listed (os.walk ignores
\* the error of os.scandir, its onerror being None)
ScanBegin ==
    /\ pc = "scan"
    /\ files_data' = <<>>
    /\ stack' = IF RootExists THEN <<0>> ELSE <<>>
    /\ curFiles' = {}
    /\ pc' = "walk"
    /\ UNCHANGED <<fileVars, target, localDir, tree, tempDir, path, is_temp,
                   raised, curDir, gi, gj, graph_edges, used_by>>

\* the next (root, dirs, files) of os.walk, and the pruning of dirs
WalkDir ==
    /\ pc = "walk"
    /\ curFiles = {}
    /\ stack # <<>>
    /\ LET d == Head(stack)
           dirs == Prune(SubDirs(d))
       IN  /\ curDir' = d
           /\ curFiles' = {e \in tree.files : e.depth = d}
           /\ stack' = [i \in 1..Len(dirs) |-> d + 1] \o Tail(stack)
    /\ UNCHANGED <<fileVars, mainVars, files_data, gi, gj, graph_edges, used_by>>

\* AfterRead with the entry stored before the file is read
AfterReadStoredFirst(dict, e) ==
    DictSet(dict, RelPath(e.depth, File(e).name),
            IF File(e).readable THEN FileRecord(File(e).name, File(e).content)
            ELSE [purpose |-> get_file_purpose(File(e).name, <<>>), risks |-> <<>>,
                  objectives |-> <<>>, raw_imports |-> <<>>])

\* what the try block leaves in files_data for the admitted file e
AfterRead(dict, e) ==
    IF File(e).readable
    THEN DictSet(dict, RelPath(e.depth, File(e).name),
                 FileRecord(File(e).name, File(e).content))
    ELSE dict

\* for f in files: a file that is admitted and read
ScanFile ==
    /\ pc = "walk"
    /\ \E e \in curFiles :
          /\ Admitted(File(e).name)
          /\ File(e).readable
          /\ files_data' = AfterRead(files_data, e)
          /\ curFiles' = curFiles \ {e}
    /\ UNCHANGED <<fileVars, mainVars, stack, curDir, gi, gj, graph_edges, used_by>>

\* a file that is admitted and whose open() or read fails: except: pass
FailFile ==
    /\ pc = "walk"
    /\ \E e \in curFiles :
          /\ Admitted(File(e).name)
          /\ ~File(e).readable
          /\ files_data' = AfterRead(files_data, e)
          /\ curFiles' = curFiles \ {e}
    /\ UNCHANGED <<fileVars, mainVars, stack, curDir, gi, gj, graph_edges, used_by>>

\* a file that is not admitted
SkipFile ==
    /\ pc = "walk"
    /\ \E e \in curFiles :
          /\ ~Admitted(File(e).name)
          /\ curFiles' = curFiles \ {e}
    /\ UNCHANGED <<fileVars, mainVars, stack, curDir, files_data, gi, gj, graph_edges,
                   used_by>>

\* os.walk is exhausted: graph_edges = []; used_by = defaultdict(set)
WalkEnd ==
    /\ pc = "walk"
    /\ curFiles = {}
    /\ stack = <<>>
    /\ graph_edges' = <<>>
    /\ used_by' = EmptyDict
    /\ gi' = 1
    /\ gj' = 1
    /\ pc' = "graph"
    /\ UNCHANGED <<fileVars, target, localDir, tree, tempDir, path, is_temp,
                   raised, stack, curDir, curFiles, files_data>>

\* tgt = imp.split('/')[-1]
Target(imp) == SplitLast(imp, "/")

\* KeepTarget with the length test dropped: if tgt
KeepAnyTarget(tgt) == tgt # <<>>

\* if tgt and len(tgt) > 1
KeepTarget(tgt) == tgt # <<>> /\ Len(tgt) > 1

\* used_by[tgt].add(src)
AddUser(index, tgt, src) ==
    IF tgt \in DOMAIN index
    THEN [index EXCEPT ![tgt] = @ \cup {src}]
    ELSE [t \in DOMAIN index \cup {tgt} |-> IF t = tgt THEN {src} ELSE index[t]]

\* for imp in data['raw_imports']: an import that yields an edge
GraphEdge ==
    /\ pc = "graph"
    /\ gi <= Len(files_data)
    /\ gj <= Len(files_data[gi].rec.raw_imports)
    /\ LET src == files_data[gi].path
           tgt == Target(files_data[gi].rec.raw_imports[gj])
       IN  /\ KeepTarget(tgt)
           /\ graph_edges' = Append(graph_edges, [source |-> Basename(src), target |-> tgt])
           /\ used_by' = AddUser(used_by, tgt, src)
    /\ gj' = gj + 1
    /\ UNCHANGED <<fileVars, mainVars, stack, curDir, curFiles, files_data, gi>>

\* an import whose target is too short: nothing is added
GraphSkip ==
    /\ pc = "graph"
    /\ gi <= Len(files_data)
    /\ gj <= Len(files_data[gi].rec.raw_imports)
    /\ ~KeepTarget(Target(files_data[gi].rec.raw_imports[gj]))
    /\ gj' = gj + 1
    /\ UNCHANGED <<fileVars, mainVars, stack, curDir, curFiles, files_data, gi,
                   graph_edges, used_by>>

\* for src, data in files_data.items(): the next file
GraphNextFile ==
    /\ pc = "graph"
    /\ gi <= Len(files_data)
    /\ gj > Len(files_data[gi].rec.raw_imports)
    /\ gi' = gi + 1
    /\ gj' = 1
    /\ UNCHANGED <<fileVars, mainVars, stack, curDir, curFiles, files_data,
                   graph_edges, used_by>>

\* return files_data, graph_edges, used_by
ScanReturn ==
    /\ pc = "graph"
    /\ gi > Len(files_data)
    /\ pc' = "report"
    /\ UNCHANGED <<fileVars, target, localDir, tree, tempDir, path, is_temp,
                   raised, scanVars>>

\* an exception leaves scan_project (raised outside the per-file try block,
\* e.g. KeyboardInterrupt or MemoryError): its locals are gone
ScanRaise ==
    /\ pc \in {"walk", "graph"}
    /\ raised' = TRUE
    /\ pc' = "finally"
    /\ stack' = <<>> /\ curDir' = 0 /\ curFiles' = {} /\ files_data' = <<>>
    /\ gi' = 1 /\ gj' = 1 /\ graph_edges' = <<>> /\ used_by' = EmptyDict
    /\ UNCHANGED <<fileVars, target, localDir, tree, tempDir, path, is_temp>>

\* generate_report returns
ReportOk ==
    /\ pc = "report"
    /\ pc' = "finally"
    /\ UNCHANGED <<fileVars, target, localDir, tree, tempDir, path, is_temp,
                   raised, scanVars>>

\* generate_report raises (e.g. the report file cannot be written)
ReportRaise ==
    /\ pc = "report"
    /\ raised' = TRUE
    /\ pc' = "finally"
    /\ UNCHANGED <<fileVars, target, localDir, tree, tempDir, path, is_temp,
                   scanVars>>

\* finally: if is_temp: shutil.rmtree(path, onerror=handle_remove_readonly).
\* The clone may hold read-only entries (git writes its object files so).
Finally ==
    /\ pc = "finally"
    /\ IF is_temp
       THEN \E ro \in BOOLEAN :
               IF path = "temp"
               THEN tempDir' = RmTree(ro) /\ UNCHANGED localDir
               ELSE localDir' = RmTree(ro) /\ UNCHANGED tempDir
       ELSE UNCHANGED <<tempDir, localDir>>
    /\ pc' = IF raised THEN "crashed" ELSE "done"
    /\ UNCHANGED <<fileVars, target, tree, path, is_temp, raised, scanVars>>

Next ==
    \/ MainRemote \/ MainLocal \/ CloneOk \/ CloneFail
    \/ ScanBegin \/ ScanRaise
    \/ WalkDir \/ ScanFile \/ FailFile \/ SkipFile \/ WalkEnd
    \/ GraphEdge \/ GraphSkip \/ GraphNextFile \/ ScanReturn
    \/ ReportOk \/ ReportRaise \/ Finally

Spec == Init /\ [][Next]_vars

\* the program is one sequential process: it takes its next step as long as
\* it has one
FairSpec == Spec /\ WF_vars(Next)

(***************************************************************************)
(* Properties.                                                             *)
(***************************************************************************)
\* The substring of r after its last '/', r itself when it has none: the
\* suffix that holds no '/' and is preceded by one or starts r.
LastSegment(r) ==
    LET n == Len(r)
        k == CHOOSE x \in 1..(n + 1) :
                 /\ \A j \in x..n : r[j] # "/"
                 /\ x = 1 \/ r[x - 1] = "/"
    IN  SubSeq(r, k, n)

\* the number of newline characters in c[0..k)
NewlinesBefore(c, k) == Cardinality({j \in 1..k : c[j] = "\n"})

HasKey(dict, key) == \E i \in 1..Len(dict) : dict[i].path = key

\* the file e of the tree lies, directly or transitively, in a directory
\* whose name is in the ignore set
InsideIgnored(e) == \E k \in 1..e.depth : tree.dirs[k] \in IGNORED

\* scan_project has returned
Returned == pc = "report"

\* C1: no key of files_data names a file that lies, directly or
\* transitively, inside a directory whose name is in the ignore set, and the
\* walk never visits or queues such a directory.
C1_NoIgnoredDescent ==
    /\ \A e \in tree.files :
          InsideIgnored(e) => ~HasKey(files_data, RelPath(e.depth, File(e).name))
    /\ pc = "walk" =>
          /\ \A k \in 1..curDir : tree.dirs[k] \notin IGNORED
          /\ \A i \in 1..Len(stack) : \A k \in 1..stack[i] : tree.dirs[k] \notin IGNORED

\* C1 witness: a scan has returned records although the tree holds a
\* readable, admitted file below an ignored directory that lies in a
\* directory that is not ignored.
C1_Witness ==
    /\ Returned
    /\ files_data # <<>>
    /\ tree.dirs[1] \notin IGNORED
    /\ \E e \in tree.files :
          /\ e.depth = Len(tree.dirs) /\ InsideIgnored(e)
          /\ File(e).readable
          /\ File(e).name = <<"l", "o", "g", "i", "n", ".", "j", "s">>

\* name ends, case-sensitively, with an entry of the allowlist
EndsWithListed(name) ==
    \E k \in 1..Len(TEXT_EXTENSIONS) :
        LET ext == TEXT_EXTENSIONS[k]
        IN  /\ Len(name) >= Len(ext)
            /\ \A j \in 1..Len(ext) : name[Len(name) - Len(ext) + j] = ext[j]

\* C2: every key of files_data names a file whose name ends with an entry
\* of TEXT_EXTENSIONS or is exactly Dockerfile or Jenkinsfile; a file of the
\* tree with any other name has no key.
C2_KeysAdmitted ==
    /\ \A i \in 1..Len(files_data) :
          LET name == LastSegment(files_data[i].path)
          IN  EndsWithListed(name) \/ name \in {<<"D", "o", "c", "k", "e", "r", "f", "i", "l", "e">>, <<"J", "e", "n", "k", "i", "n", "s", "f", "i", "l", "e">>}
    /\ \A e \in tree.files :
          (~EndsWithListed(File(e).name)
               /\ File(e).name \notin {<<"D", "o", "c", "k", "e", "r", "f", "i", "l", "e">>, <<"J", "e", "n", "k", "i", "n", "s", "f", "i", "l", "e">>})
            => ~HasKey(files_data, RelPath(e.depth, File(e).name))

\* C2 witness: a scan has returned; the root holds app.exe, whose content
\* matches a risk pattern, and a file that was admitted.
C2_Witness ==
    /\ Returned
    /\ files_data # <<>>
    /\ \E e \in tree.files :
          /\ e.depth = 0
          /\ File(e).name = <<"a", "p", "p", ".", "e", "x", "e">>
          /\ FindIter(RISK_PATTERNS[1], File(e).content, 1) # <<>>

\* the raw imports the graph loops have been through: <<file, import>>
Processed ==
    UNION {{<<i, j>> : j \in {x \in 1..Len(files_data[i].rec.raw_imports) :
                                 i < gi \/ (i = gi /\ x < gj)}} :
              i \in 1..Len(files_data)}

ImportAt(ij) == files_data[ij[1]].rec.raw_imports[ij[2]]

\* the processed imports that ask for the edge (s, t)
Asking(s, t) ==
    {ij \in Processed :
        /\ LastSegment(files_data[ij[1]].path) = s
        /\ LastSegment(ImportAt(ij)) = t
        /\ Len(t) > 1}

\* C3: each raw import r of a file p, with t what follows the last '/' of
\* r, has put exactly one edge (basename(p), t) and p in used_by[t] if
\* len(t) > 1, and nothing otherwise; so the number of edges is the number
\* of raw imports, over all files, whose t is longer than 1.
C3_EdgesMatchImports ==
    pc \in {"graph", "report"} =>
        /\ Len(graph_edges)
             = Cardinality({ij \in Processed : Len(LastSegment(ImportAt(ij))) > 1})
        /\ \A k \in 1..Len(graph_edges) :
              LET s == graph_edges[k].source
                  t == graph_edges[k].target
              IN  /\ Len(t) > 1
                  /\ Cardinality({x \in 1..Len(graph_edges) : graph_edges[x] = graph_edges[k]})
                       = Cardinality(Asking(s, t))
        /\ \A ij \in Processed :
              LET t == LastSegment(ImportAt(ij))
                  p == files_data[ij[1]].path
              IN  IF Len(t) > 1
                  THEN /\ \E k \in 1..Len(graph_edges) :
                             graph_edges[k] = [source |-> LastSegment(p), target |-> t]
                       /\ t \in DOMAIN used_by /\ p \in used_by[t]
                  ELSE t \notin DOMAIN used_by
        /\ \A t \in DOMAIN used_by :
              /\ Len(t) > 1
              /\ used_by[t] = {files_data[ij[1]].path :
                                  ij \in {x \in Processed : LastSegment(ImportAt(x)) = t}}

\* C3 witness: the graph is built, with an import that was dropped, an
\* edge that occurs twice and a target used by two files.
C3_Witness ==
    /\ Returned
    /\ \E ij \in Processed : Len(LastSegment(ImportAt(ij))) <= 1
    /\ \E k, x \in 1..Len(graph_edges) : k # x /\ graph_edges[k] = graph_edges[x]
    /\ \E t \in DOMAIN used_by : Cardinality(used_by[t]) = 2

\* the first non-empty captured group of a match
FirstGroup(groups) ==
    groups[CHOOSE i \in 1..Len(groups) :
              /\ groups[i] # <<>>
              /\ \A j \in 1..(i - 1) : groups[j] = <<>>]

\* C4 (as claimed; the code breaks it): raw_imports holds, for each match
\* of the file's import pattern, in match order, the whole first non-empty
\* captured group, and is empty for an extension without pattern.
C4_WholeGroups ==
    record # <<>> =>
        LET ms == IF ExtKey(f) \in IMPORT_KEYS
                  THEN ImportMatches(ExtKey(f), content, 1) ELSE <<>>
        IN  record[1].raw_imports = [i \in 1..Len(ms) |-> FirstGroup(ms[i])]

\* C5: the findings of a file are, for every catalog entry, one per match
\* of its pattern (equal findings are kept), and the line of the finding of
\* a match at offset k is the number of newlines in content[0..k) plus 1.
C5_LinePerMatch ==
    record # <<>> =>
        LET risks == record[1].risks
        IN  /\ \A i \in 1..Len(risks) :
                  \E p \in 1..Len(RISK_PATTERNS) : risks[i].type = RISK_PATTERNS[p].type
            /\ \A p \in 1..Len(RISK_PATTERNS) :
                  LET starts == FindIter(RISK_PATTERNS[p], content, 1)
                      lines == [k \in 1..Len(starts) |-> NewlinesBefore(content, starts[k]) + 1]
                      mine == {i \in 1..Len(risks) : risks[i].type = RISK_PATTERNS[p].type}
                  IN  /\ Cardinality(mine) = Len(starts)
                      /\ \A l \in {lines[k] : k \in 1..Len(starts)}
                                  \cup {risks[i].line : i \in mine} :
                            Cardinality({i \in mine : risks[i].line = l})
                              = Cardinality({k \in 1..Len(starts) : lines[k] = l})

\* C5 witness: a file with two equal findings on its second line.
C5_Witness ==
    /\ record # <<>>
    /\ \E i, j \in 1..Len(record[1].risks) :
          /\ i # j
          /\ record[1].risks[i] = record[1].risks[j]
          /\ record[1].risks[i].line = 2

\* all matches of all catalog entries: <<start offset, catalog index>>
AllMatches ==
    UNION {LET starts == FindIter(RISK_PATTERNS[p], content, 1)
           IN  {<<starts[k], p>> : k \in 1..Len(starts)} :
              p \in 1..Len(RISK_PATTERNS)}

\* the matches in increasing order of start offset
RECURSIVE ByOffset(_)
ByOffset(ms) ==
    IF ms = {} THEN <<>>
    ELSE LET m == CHOOSE x \in ms : \A y \in ms : x[1] <= y[1]
         IN  <<m>> \o ByOffset(ms \ {m})

\* C6 (as claimed; the code does otherwise): the findings of a file are in
\* the order of their matches' start offsets, whatever their categories.
C6_OffsetOrder ==
    record # <<>> =>
        LET risks == record[1].risks
            ms == ByOffset(AllMatches)
        IN  /\ Len(risks) = Len(ms)
            /\ \A i \in 1..Len(ms) :
                  /\ risks[i].type = RISK_PATTERNS[ms[i][2]].type
                  /\ risks[i].line = NewlinesBefore(content, ms[i][1]) + 1

\* the index of a category in the catalog
CatalogIndex(type) ==
    CHOOSE p \in 1..Len(RISK_PATTERNS) : RISK_PATTERNS[p].type = type

\* C6 (amended): the findings of a file are grouped by catalog entry, in
\* catalog order; the findings of one catalog entry are in the order of
\* their matches' start offsets.
C6_CatalogThenOffset ==
    record # <<>> =>
        LET risks == record[1].risks
        IN  /\ \A i, j \in 1..Len(risks) :
                  i < j => CatalogIndex(risks[i].type) <= CatalogIndex(risks[j].type)
            /\ \A p \in 1..Len(RISK_PATTERNS) :
                  LET starts == FindIter(RISK_PATTERNS[p], content, 1)
                      mine == SelectSeq(risks, LAMBDA r : r.type = RISK_PATTERNS[p].type)
                  IN  /\ Len(mine) = Len(starts)
                      /\ \A k \in 1..Len(starts) :
                            /\ mine[k].line = NewlinesBefore(content, starts[k]) + 1
                            /\ k > 1 => starts[k - 1] < starts[k]

\* C6 witness: a finding of a later line precedes a finding of an earlier
\* line of another category.
C6_Witness ==
    /\ record # <<>>
    /\ \E i, j \in 1..Len(record[1].risks) :
          /\ i < j
          /\ record[1].risks[i].type # record[1].risks[j].type
          /\ record[1].risks[i].line > record[1].risks[j].line

\* the rules of get_file_purpose in their order: substring, tag
PURPOSE_RULES ==
    << <<<<"p", "a", "c", "k", "a", "g", "e", ".", "j", "s", "o", "n">>, "Node.js Dependencies">>,
       <<<<"p", "o", "m", ".", "x", "m", "l">>, "Maven Build Config">>,
       <<<<"b", "u", "i", "l", "d", ".", "g", "r", "a", "d", "l", "e">>, "Gradle Build Config">>,
       <<<<"r", "e", "q", "u", "i", "r", "e", "m", "e", "n", "t", "s", ".", "t", "x", "t">>, "Python Dependencies">>,
       <<<<"d", "o", "c", "k", "e", "r", "-", "c", "o", "m", "p", "o", "s", "e">>, "Docker Services">>,
       <<<<"d", "o", "c", "k", "e", "r", "f", "i", "l", "e">>, "Container Definition">>,
       <<<<"j", "e", "n", "k", "i", "n", "s", "f", "i", "l", "e">>, "Jenkins Pipeline">>,
       <<<<"p", "l", "a", "y", "w", "r", "i", "g", "h", "t", ".", "c", "o", "n", "f", "i", "g">>, "Playwright Config">>,
       <<<<"c", "y", "p", "r", "e", "s", "s", ".", "c", "o", "n", "f", "i", "g">>, "Cypress Config">>,
       <<<<"r", "e", "a", "d", "m", "e", ".", "m", "d">>, "Project Documentation">>,
       <<<<".", "e", "n", "v">>, "Environment Config">>,
       <<<<".", "g", "i", "t", "i", "g", "n", "o", "r", "e">>, "Git Ignore">>,
       <<<<"t", "e", "s", "t">>, "Test Script">>,
       <<<<"s", "p", "e", "c">>, "Test Script">>,
       <<<<".", "j", "a", "v", "a">>, "Java Source">>,
       <<<<".", "p", "y">>, "Python Source">>,
       <<<<".", "j", "s">>, "JS/TS Source">>,
       <<<<".", "t", "s">>, "JS/TS Source">>,
       <<<<".", "g", "r", "o", "o", "v", "y">>, "Katalon Script">>,
       <<<<".", "c", "s">>, "C# Source">> >>

\* C7: get_file_purpose returns the tag of the first rule, in rule order,
\* whose substring occurs in the lowercased file name, and the generic tag
\* when no rule matches.
C7_FirstRuleWins ==
    purpose # "" =>
        LET name == Lower(f)
            hits == {r \in 1..Len(PURPOSE_RULES) : Contains(name, PURPOSE_RULES[r][1])}
        IN  IF hits = {} THEN purpose = "Source File"
            ELSE purpose = PURPOSE_RULES[CHOOSE r \in hits : \A h \in hits : r <= h][2]

\* C7 witness: package.json.test is classified as the manifest.
C7_Witness ==
    /\ f = <<"p", "a", "c", "k", "a", "g", "e", ".", "j", "s", "o", "n", ".", "t", "e", "s", "t">>
    /\ purpose = "Node.js Dependencies"

\* the files of the tree the walk reaches, admits and reads
Scanned ==
    {e \in tree.files :
        ~InsideIgnored(e) /\ Admitted(File(e).name) /\ File(e).readable}

\* C8: a file whose read fails gets no entry, and the scan returns the
\* records of exactly the other admitted files it reaches, each as computed
\* from that file alone.
C8_FailedFileExcluded ==
    Returned =>
        /\ \A e \in tree.files :
              ~File(e).readable => ~HasKey(files_data, RelPath(e.depth, File(e).name))
        /\ Len(files_data) = Cardinality(Scanned)
        /\ \A e \in Scanned :
              \E i \in 1..Len(files_data) :
                  /\ files_data[i].path = RelPath(e.depth, File(e).name)
                  /\ files_data[i].rec = FileRecord(File(e).name, File(e).content)

\* C8 witness: a scan has returned the record of a file although the read
\* of a file in the same directory failed.
C8_Witness ==
    /\ Returned
    /\ \E e, g \in tree.files :
          /\ e.depth = g.depth /\ ~InsideIgnored(e)
          /\ ~File(e).readable /\ Admitted(File(e).name)
          /\ HasKey(files_data, RelPath(g.depth, File(g).name))

\* C9 (as claimed; the code breaks it): scan_project does not return a
\* result when the root directory is missing.
C9_MissingRootFails ==
    ~(Returned /\ ~RootExists)

\* C10: the temporary directory of a clone is removed before the program
\* ends, on every path, whether the clone fails or scan_project or
\* generate_report raise; the local target directory is never removed.
C10_TempDirRemoved ==
    /\ [](pc \in {"exit1", "done", "crashed"} => tempDir # "present")
    /\ [](localDir # "removed")
    /\ (tempDir = "present") ~> (tempDir = "removed")

\* C10 witness: the run of a clone ended by an exception, with the
\* temporary directory removed.
C10_Witness ==
    /\ pc = "crashed"
    /\ is_temp
    /\ tempDir = "removed"
====
